---- MODULE Spec2Model ----
(***************************************************************************)
(* The trust-on-first-use host verifier of libneo4j-client (src/lib/tofu.c) *)
(* and the known-hosts file it keeps.  A C string is a sequence of          *)
(* one-character strings; the known-hosts file is either absent or such a   *)
(* sequence of bytes.  The calls are modelled whole (Spec, LongSpec) and    *)
(* one library call at a time for two concurrent processes (StepSpec); the  *)
(* result stream declared in result_stream.h is modelled in StreamSpec.     *)
(***************************************************************************)
EXTENDS Integers, Sequences, FiniteSets, TLC

(***************************************************************************)
(* Program constants.                                                       *)
(***************************************************************************)
NEO4J_MAX_HOST_LENGTH == 512
NEO4J_MAX_FINGERPRINT_LENGTH == 60
NEO4J_MAX_KNOWN_HOSTS_LINE_LENGTH == 1024
MaxHostnameLen == 256
PATH_MAX == 4096
\* strlen(NEO4J_TEMP_FILE_SUFFIX), ".tmpXXXXXX"
TempSuffixLen == 10

(***************************************************************************)
(* Bounds of the model.                                                     *)
(***************************************************************************)
\* a call sequence is explored up to this many calls
MaxCalls == 3
\* the long fingerprints presented are NEO4J_MAX_FINGERPRINT_LENGTH - 1 plus
\* 0..MaxFpExcess characters long
MaxFpExcess == 1
\* a read error may strike after 0..MaxReadOk successful fgets calls
MaxReadOk == 1

(***************************************************************************)
(* C strings and <ctype.h>.                                                 *)
(***************************************************************************)
Rep(c, n) == [i \in 1..n |-> c]

\* the element of a one-element set: Only({F(x) : x \in {e}}) is F(e) with e
\* evaluated once
Only(S) == CHOOSE x \in S : TRUE

Min(a, b) == IF a < b THEN a ELSE b

\* isspace in the C locale (the vertical tab, which no file here holds, aside)
isspace(c) == c \in {" ", "\t", "\n", "\r", "\f"}

Digit(d) == CASE d = 0 -> "0" [] d = 1 -> "1" [] d = 2 -> "2" [] d = 3 -> "3"
              [] d = 4 -> "4" [] d = 5 -> "5" [] d = 6 -> "6" [] d = 7 -> "7"
              [] d = 8 -> "8" [] d = 9 -> "9"

RECURSIVE Decimal(_)
\* printf's %d for n >= 0
Decimal(n) == IF n < 10 THEN <<Digit(n)>> ELSE Decimal(n \div 10) \o <<Digit(n % 10)>>

\* printf's %d
FormatInt(n) == IF n < 0 THEN <<"-">> \o Decimal(-n) ELSE Decimal(n)

\* snprintf(host, sizeof(host), "%s:%d", hostname, port)
HostLabel(hostname, port) == hostname \o <<":">> \o FormatInt(port)

\* assert(n > 0 && n < NEO4J_MAX_HOST_LENGTH)
HostFits(hostname, port) ==
    Len(HostLabel(hostname, port)) > 0
        /\ Len(HostLabel(hostname, port)) < NEO4J_MAX_HOST_LENGTH

\* a faulty MatchesHost: one leading whitespace character is skipped first
MatchesHost_Indented(line, host) ==
    LET l == IF line # <<>> /\ isspace(line[1]) THEN Tail(line) ELSE line
    IN  /\ Len(l) > Len(host)
        /\ SubSeq(l, 1, Len(host)) = host
        /\ isspace(l[Len(host) + 1])

\* strncmp(line, host, strlen(host)) == 0 && isspace(line[strlen(host)]);
\* line[Len(line)] is the terminating NUL, which is no space
MatchesHost(line, host) ==
    /\ Len(line) > Len(host)
    /\ SubSeq(line, 1, Len(host)) = host
    /\ isspace(line[Len(host) + 1])

(***************************************************************************)
(* fgets(line, sizeof(line), stream): at most sizeof(line) - 1 bytes, up to *)
(* and including the first newline.                                         *)
(***************************************************************************)
\* the index of the first newline of s in i..lim, or lim when there is none
NewlineAt(s, i, lim) ==
    LET at == {j \in i..(lim - 1) : s[j] = "\n"}
    IN  IF i >= lim \/ at = {} THEN lim
        ELSE CHOOSE j \in at : \A k \in at : j <= k

FgetsLen(rest) ==
    NewlineAt(rest, 1, Min(Len(rest), NEO4J_MAX_KNOWN_HOSTS_LINE_LENGTH - 1))

RECURSIVE Chunks(_)
\* the successive results of fgets on a stream holding content
Chunks(content) ==
    IF content = <<>> THEN <<>>
    ELSE LET k == FgetsLen(content)
         IN  <<SubSeq(content, 1, k)>> \o Chunks(SubSeq(content, k + 1, Len(content)))

RECURSIVE Flatten(_)
Flatten(ss) == IF ss = <<>> THEN <<>> ELSE Head(ss) \o Flatten(Tail(ss))

(***************************************************************************)
(* The file system: the known-hosts file exists or not, and when it exists  *)
(* it holds bytes.  A buffer is initialized (holds a C string) or not.      *)
(***************************************************************************)
NoFile == [exists |-> FALSE, bytes |-> <<>>]
FileOf(bytes) == [exists |-> TRUE, bytes |-> bytes]

Uninit == [init |-> FALSE, str |-> <<>>]
BufOf(str) == [init |-> TRUE, str |-> str]

RECURSIVE SkipSpaces(_)
\* for (; isspace(*p); ++p)
SkipSpaces(p) == IF p # <<>> /\ isspace(Head(p)) THEN SkipSpaces(Tail(p)) ELSE p

RECURSIVE TrimLen(_, _)
\* for (; l > 0 && isspace(p[l-1]); --l)
TrimLen(p, l) == IF l > 0 /\ isspace(p[l]) THEN TrimLen(p, l - 1) ELSE l

\* the fingerprint copied out of a matching line into a buffer of n bytes
StoredFingerprint(line, host, n) ==
    LET p == SkipSpaces(SubSeq(line, Len(host) + 2, Len(line)))
        l == Min(TrimLen(p, Len(p)), n - 1)
    IN  SubSeq(p, 1, l)

RECURSIVE FirstMatch(_, _, _)
\* the index of the first of lines[i..] that MatchesHost, or 0
FirstMatch(lines, host, i) ==
    IF i > Len(lines) THEN 0
    ELSE IF MatchesHost(lines[i], host) THEN i
    ELSE FirstMatch(lines, host, i + 1)

\* The fgets results a reader gets before a read error (readOk = -1: no error;
\* otherwise the error strikes once readOk lines have been read).
Readable(bytes, readOk) ==
    LET all == Chunks(bytes)
    IN  IF readOk = -1 \/ readOk > Len(all) THEN all ELSE SubSeq(all, 1, readOk)

ReadFails(bytes, readOk) == readOk # -1 /\ readOk <= Len(Chunks(bytes))

\* retrieve_stored_fingerprint(file, host, buf, n, logger) on the file f;
\* openFails: fopen fails with an errno other than ENOENT.
retrieve_stored_fingerprint(f, host, n, openFails, readOk) ==
    IF openFails THEN [result |-> -1, buf |-> Uninit]
    ELSE IF ~f.exists THEN [result |-> 1, buf |-> Uninit]
    ELSE Only({LET m == FirstMatch(lines, host, 1)
               IN  IF m # 0
                   THEN [result |-> 0,
                         buf |-> BufOf(StoredFingerprint(lines[m], host, n))]
                   ELSE IF ReadFails(f.bytes, readOk)
                   THEN [result |-> -1, buf |-> Uninit]
                   ELSE [result |-> 1, buf |-> Uninit] :
               lines \in {Readable(f.bytes, readOk)}})

(***************************************************************************)
(* update_stored_fingerprint.  failAt names the library call that fails in  *)
(* this run ("none": every call succeeds); filelen is strlen(file);         *)
(* garbage is what the uninitialized outfile[] happens to hold when it is   *)
(* read: "empty" (outfile[0] is NUL), "nopath" (a name of no file),         *)
(* "file" (a name of the known-hosts file), "other" (a name of some other   *)
(* file).                                                                   *)
(***************************************************************************)
UpdateFailPoints ==
    {"none", "fopen", "mkdir_p", "mkstemp", "fdopen", "fputs", "fgets",
     "fclose_in", "fprintf", "fclose_out", "rename"}

Garbage == {"empty", "nopath", "file", "other"}

\* the lines the copy loop writes: those that do not match host
RECURSIVE KeptLines(_, _)
KeptLines(lines, host) ==
    IF lines = <<>> THEN <<>>
    ELSE IF MatchesHost(Head(lines), host) THEN KeptLines(Tail(lines), host)
    ELSE <<Head(lines)>> \o KeptLines(Tail(lines), host)

\* fprintf(out_stream, "%s %s\n", host, fingerprint)
EntryLine(host, fingerprint) == host \o <<" ">> \o fingerprint \o <<"\n">>

\* the bytes of the temp file when it is renamed over the known-hosts file
Rewritten(f, host, fingerprint) ==
    (IF f.exists THEN Flatten(KeptLines(Chunks(f.bytes), host)) ELSE <<>>)
        \o EntryLine(host, fingerprint)

TempNameTooLong(filelen) == (filelen + TempSuffixLen + 1) > PATH_MAX

\* the failure that strikes: a call that this run does not reach cannot fail
EffectiveFail(f, host, filelen, failAt) ==
    IF failAt = "fopen" THEN "fopen"
    ELSE IF TempNameTooLong(filelen) THEN "toolong"
    ELSE IF failAt \in {"fgets", "fclose_in"} /\ ~f.exists THEN "none"
    ELSE IF failAt = "fputs"
            /\ (~f.exists \/ KeptLines(Chunks(f.bytes), host) = <<>>) THEN "none"
    ELSE failAt

\* update_stored_fingerprint(file, host, fingerprint, logger):
\* result, the known-hosts file afterwards, and whether some other file
\* was unlinked.
update_stored_fingerprint(f, host, fingerprint, filelen, failAt, garbage) ==
    Only({IF fail = "none"
          THEN [result |-> 0, file |-> FileOf(Rewritten(f, host, fingerprint)),
                stray |-> FALSE, fail |-> fail]
          ELSE IF fail = "toolong"
          THEN \* goto failure with outfile[] never written: unlink(outfile)
               \* unless its first byte happens to be NUL
               [result |-> -1,
                file |-> IF garbage = "file" THEN NoFile ELSE f,
                stray |-> (garbage = "other"), fail |-> fail]
          ELSE \* every other failure: the temp file, if made, is unlinked;
               \* after mkdir_p failed outfile names the directory, which
               \* unlink does not remove
               [result |-> -1, file |-> f, stray |-> FALSE, fail |-> fail] :
          fail \in {EffectiveFail(f, host, filelen, failAt)}})

(***************************************************************************)
(* neo4j_check_known_hosts.  cfg.known_hosts_file is "set" or "null";       *)
(* cfg.callback is "none" (no callback installed) or the action the         *)
(* installed callback returns.  env holds what the environment does in this *)
(* call: dotDirFails (neo4j_dot_dir fails), lookup.openFails and            *)
(* lookup.readOk (the lookup's fopen and fgets), lookup.garbageEq (whether  *)
(* the uninitialized existing[] happens to compare equal to the             *)
(* fingerprint), and update.filelen, update.failAt, update.garbage (see     *)
(* update_stored_fingerprint).                                              *)
(***************************************************************************)
CallbackActions == {"TRUST", "ACCEPT_ONCE", "REJECT", "OTHER"}

\* REQUIRE(strlen(hostname) < 256 && hostname[0] != '\0', -1)
ValidHostname(hostname) == Len(hostname) < MaxHostnameLen /\ hostname # <<>>

\* strcmp(fingerprint, existing) != 0
Differs(fingerprint, existing, garbageEq) ==
    IF existing.init THEN fingerprint # existing.str ELSE ~garbageEq

\* reason = (result == 0)? MISMATCH : UNRECOGNIZED
Reason(result) == IF result = 0 THEN "MISMATCH" ELSE "UNRECOGNIZED"

\* result 2 stands for "not called in this run"
NoLookup == [result |-> 2, buf |-> Uninit]
NoUpdate == [result |-> 2, file |-> NoFile, stray |-> FALSE, fail |-> "none"]

\* a faulty Persists: ACCEPT_ONCE persists too
Persists_AcceptOnceToo(action) == action \in {"TRUST", "ACCEPT_ONCE"}

\* case NEO4J_HOST_VERIFICATION_TRUST: the action that makes the verifier
\* call update_stored_fingerprint
Persists(action) == action = "TRUST"

\* a faulty SwitchResult: ACCEPT_ONCE is treated like any unknown action
SwitchResult_NoAcceptOnce(action, upResult) ==
    IF action = "TRUST" THEN (IF upResult # 0 THEN -1 ELSE 0) ELSE 1

\* the switch on the callback's action; upResult is what
\* update_stored_fingerprint returned when the action made the verifier call it
SwitchResult(action, upResult) ==
    IF action = "TRUST" THEN (IF upResult # 0 THEN -1 ELSE 0)
    ELSE IF action = "ACCEPT_ONCE" THEN 0
    ELSE 1

\* what the verifier does once the lookup has returned lk
AfterLookup(f, host, fingerprint, cfg, env, lk) ==
    IF lk.result > 0 \/ Differs(fingerprint, lk.buf, env.lookup.garbageEq)
    THEN IF cfg.callback = "none"
         THEN [result |-> 1, file |-> f, calls |-> <<>>, lookup |-> lk,
               update |-> NoUpdate]
         ELSE LET invocation == [host |-> host, fingerprint |-> fingerprint,
                                 reason |-> Reason(lk.result)]
              IN  IF Persists(cfg.callback)
                  THEN Only({[result |-> SwitchResult(cfg.callback, up.result),
                              file |-> up.file, calls |-> <<invocation>>,
                              lookup |-> lk, update |-> up] :
                             up \in {update_stored_fingerprint(f, host, fingerprint,
                                        env.update.filelen, env.update.failAt,
                                        env.update.garbage)}})
                  ELSE [result |-> SwitchResult(cfg.callback, NoUpdate.result),
                        file |-> f, calls |-> <<invocation>>, lookup |-> lk,
                        update |-> NoUpdate]
    ELSE [result |-> lk.result, file |-> f, calls |-> <<>>, lookup |-> lk,
          update |-> NoUpdate]

neo4j_check_known_hosts(f, hostname, port, fingerprint, cfg, env) ==
    IF ~ValidHostname(hostname) \/ (cfg.known_hosts_file = "null" /\ env.dotDirFails)
    THEN [result |-> -1, file |-> f, calls |-> <<>>, lookup |-> NoLookup,
          update |-> NoUpdate]
    ELSE Only({AfterLookup(f, HostLabel(hostname, port), fingerprint, cfg, env, lk) :
               lk \in {retrieve_stored_fingerprint(f, HostLabel(hostname, port),
                          NEO4J_MAX_FINGERPRINT_LENGTH,
                          env.lookup.openFails, env.lookup.readOk)}})

(***************************************************************************)
(* The inputs the calls are made with.                                      *)
(***************************************************************************)
db == <<"d", "b">>
AA == <<"A", "A">>
CC == <<"C", "C">>

Hostnames == {<<>>, db, Rep("h", MaxHostnameLen)}
Ports == {7, 76}
Labels == {HostLabel(db, p) : p \in Ports}

\* short digests, and digests just below, at and above the size of existing[]
Fingerprints ==
    {AA, CC} \cup
    {Rep("F", NEO4J_MAX_FINGERPRINT_LENGTH - 1 + k) : k \in 0..MaxFpExcess}

\* What the environment does to a lookup: nothing; fopen fails; or fgets
\* fails after readOk lines (existing[] is then read uninitialized).
NoLookupFault == [openFails |-> FALSE, readOk |-> -1, garbageEq |-> FALSE]
LookupEnvs ==
    {NoLookupFault}
    \cup [openFails : {TRUE}, readOk : {-1}, garbageEq : BOOLEAN]
    \cup [openFails : {FALSE}, readOk : 0..MaxReadOk, garbageEq : BOOLEAN]

\* What the environment does to a replace: one library call fails, or the
\* file name is too long for the temp suffix (outfile[] is then read
\* uninitialized).  strlen(file) is the longest name the suffix still fits,
\* or one more.
NoUpdateFault ==
    [filelen |-> PATH_MAX - TempSuffixLen - 1, failAt |-> "none", garbage |-> "empty"]
UpdateEnvs ==
    [filelen : {PATH_MAX - TempSuffixLen - 1}, failAt : UpdateFailPoints,
     garbage : {"empty"}]
    \cup [filelen : {PATH_MAX - TempSuffixLen}, failAt : {"none"}, garbage : Garbage]

NoFault == [dotDirFails |-> FALSE, lookup |-> NoLookupFault, update |-> NoUpdateFault]

\* The calls of neo4j_check_known_hosts explored.  What a call never reaches
\* is not varied: a call that fails its argument check or the default
\* directory reaches neither lookup nor replace, and only a callback that
\* answers TRUST reaches replace.  Within one call the environment disturbs
\* the lookup or the replace, or makes fopen fail in both.
CheckCalls ==
    [hostname : Hostnames \ {db}, port : {7}, fingerprint : {AA},
     cfg : [known_hosts_file : {"set"}, callback : {"none", "TRUST"}],
     env : {NoFault}]
    \cup [hostname : {db}, port : Ports, fingerprint : Fingerprints,
          cfg : [known_hosts_file : {"null"}, callback : {"none", "TRUST"}],
          env : {NoFault, [NoFault EXCEPT !.dotDirFails = TRUE]}]
    \cup [hostname : {db}, port : Ports, fingerprint : Fingerprints,
          cfg : [known_hosts_file : {"set"},
                 callback : ({"none"} \cup CallbackActions) \ {"TRUST"}],
          env : [dotDirFails : {FALSE}, lookup : LookupEnvs, update : {NoUpdateFault}]]
    \cup [hostname : {db}, port : Ports, fingerprint : Fingerprints,
          cfg : [known_hosts_file : {"set"}, callback : {"TRUST"}],
          env : [dotDirFails : {FALSE}, lookup : LookupEnvs, update : {NoUpdateFault}]
                \cup [dotDirFails : {FALSE}, lookup : {NoLookupFault}, update : UpdateEnvs]
                \cup {[NoFault EXCEPT !.lookup.openFails = TRUE,
                                      !.update.failAt = "fopen"]}]

\* known-hosts files found before the first call: none, an empty one, files
\* the store wrote, and files edited by hand (a repeated host, a last line
\* without its newline, an indented line)
InitFiles ==
    {NoFile,
     FileOf(<<>>),
     FileOf(EntryLine(HostLabel(db, 7), AA)),
     FileOf(EntryLine(HostLabel(db, 7), AA) \o EntryLine(HostLabel(db, 7), CC)),
     FileOf(HostLabel(db, 76) \o <<" ">> \o CC),
     FileOf(<<" ">> \o EntryLine(HostLabel(db, 7), AA))}

(***************************************************************************)
(* State.  file: the known-hosts file; start: whether it existed before the *)
(* first call (history).  last: the call that ran last, with  *)
(* its inputs, the file before it (pre), the pin before it (pin), and what  *)
(* it did (out).  pinned: the host label and fingerprint the callback last  *)
(* answered TRUST for, while no other replace has changed the file since    *)
(* (history).  ncalls: calls made so far.                                   *)
(***************************************************************************)
VARIABLES file, start, last, pinned, ncalls

\* The state of the step-wise runs (see below): the file system, the
\* processes, the operations started and the last rename (history).
VARIABLES fsys, procs, started, renamed

\* The state of a result stream (see below): the stream, the records it has
\* handed out, and what the consumer's last call returned.
VARIABLES stream, records, ret

callvars == <<file, start, last, pinned, ncalls>>
stepvars == <<fsys, procs, started, renamed>>
streamvars == <<stream, records, ret>>
vars == <<callvars, stepvars, streamvars>>

\* what a call did, without the file it left (that is the variable file)
Summary(result, calls, lookup, update) ==
    [result |-> result, calls |-> calls, lookup |-> lookup,
     update |-> [result |-> update.result, fail |-> update.fail,
                 stray |-> update.stray]]

NoOut == Summary(2, <<>>, NoLookup, NoUpdate)

NoPin == [init |-> FALSE, host |-> <<>>, str |-> <<>>]

Idle == [op |-> "none", hostname |-> <<>>, port |-> 0, host |-> <<>>,
         fingerprint |-> <<>>, cfg |-> [known_hosts_file |-> "set", callback |-> "none"],
         pre |-> NoFile, pin |-> NoPin, out |-> NoOut]

\* the step-wise runs at rest: no file system, no process running
Procs == {1, 2}

NoFsys == [target |-> 0, temp |-> [p \in Procs |-> 0], data |-> <<>>,
           stray |-> FALSE, longName |-> FALSE]

NoHandles == [in |-> 0, fd |-> 0, out |-> 0]

IdleProc ==
    [op |-> "none", pc |-> "idle", host |-> <<>>, fingerprint |-> <<>>,
     in |-> 0, pos |-> 0, in_stream |-> FALSE, out_fd |-> FALSE,
     out_stream |-> FALSE, outfile |-> "uninit", out |-> 0,
     opened |-> NoHandles, closes |-> NoHandles,
     result |-> 2, buf |-> Uninit, failed |-> "none",
     pre |-> 0, seen |-> {}, disturbed |-> FALSE]

NoRename == [by |-> 0, snap |-> 0, host |-> <<>>, fingerprint |-> <<>>]

(***************************************************************************)
(* The result stream at rest.  The failure kinds are errno values; "none"   *)
(* stands for 0 (no failure) and for NULL (no string).                      *)
(***************************************************************************)
NoFailure == [kind |-> "none", code |-> "none", message |-> "none"]

NoRet == [op |-> "none", result |-> "none", record |-> 0]

NewStream ==
    [state |-> "HEADER_PENDING", buffer |-> <<>>, emitted |-> 0,
     ended |-> "no", failure |-> NoFailure, current |-> 0,
     delivered |-> <<>>, atFailure |-> 0, reported |-> NoFailure, errors |-> 0]

StreamAtRest ==
    /\ stream = NewStream
    /\ records = <<>>
    /\ ret = NoRet

StepsAtRest ==
    /\ fsys = NoFsys
    /\ procs = [p \in Procs |-> IdleProc]
    /\ started = 0
    /\ renamed = NoRename

Init ==
    /\ file \in InitFiles
    /\ start = file.exists
    /\ last = Idle
    /\ pinned = NoPin
    /\ ncalls = 0
    /\ StepsAtRest
    /\ StreamAtRest

\* the history of TRUST answers: a check that persisted fingerprint for host
\* pins it; any other replace that changed the file drops the pin
Pinned(op, up, pre, host, fingerprint) ==
    IF op = "check" /\ up.result = 0
    THEN [init |-> TRUE, host |-> host, str |-> fingerprint]
    ELSE IF up.result # 2 /\ up.file # pre THEN NoPin
    ELSE pinned

\* a caller verifies a host
Check(hostname, port, fingerprint, cfg, env) ==
    /\ last.op = "none"
    /\ ncalls < MaxCalls
    /\ \E out \in {neo4j_check_known_hosts(file, hostname, port, fingerprint, cfg, env)} :
        /\ file' = out.file
        /\ last' = [op |-> "check", hostname |-> hostname, port |-> port,
                    host |-> HostLabel(hostname, port), fingerprint |-> fingerprint,
                    cfg |-> cfg, pre |-> file, pin |-> pinned,
                    out |-> Summary(out.result, out.calls, out.lookup, out.update)]
        /\ pinned' = Pinned("check", out.update, file, HostLabel(hostname, port),
                            fingerprint)
    /\ ncalls' = ncalls + 1
    /\ UNCHANGED <<start, stepvars, streamvars>>

\* the store's replace, on its own
Replace(host, fingerprint, env) ==
    /\ last.op = "none"
    /\ ncalls < MaxCalls
    /\ \E up \in {update_stored_fingerprint(file, host, fingerprint, env.filelen,
                                           env.failAt, env.garbage)} :
        /\ file' = up.file
        /\ last' = [Idle EXCEPT !.op = "replace", !.host = host,
                      !.fingerprint = fingerprint, !.pre = file, !.pin = pinned,
                      !.out = Summary(up.result, <<>>, NoLookup, up)]
        /\ pinned' = Pinned("replace", up, file, host, fingerprint)
    /\ ncalls' = ncalls + 1
    /\ UNCHANGED <<start, stepvars, streamvars>>

\* the store's lookup, on its own
Lookup(host, env) ==
    /\ last.op = "none"
    /\ ncalls < MaxCalls
    /\ \E lk \in {retrieve_stored_fingerprint(file, host, NEO4J_MAX_FINGERPRINT_LENGTH,
                                             env.openFails, env.readOk)} :
        last' = [Idle EXCEPT !.op = "lookup", !.host = host, !.pre = file,
                   !.pin = pinned, !.out = Summary(lk.result, <<>>, lk, NoUpdate)]
    /\ ncalls' = ncalls + 1
    /\ UNCHANGED <<file, start, pinned, stepvars, streamvars>>

\* the call returns to its caller, which takes the result
Return ==
    /\ last.op # "none"
    /\ last' = Idle
    /\ UNCHANGED <<file, start, pinned, ncalls, stepvars, streamvars>>

Next ==
    \/ \E c \in CheckCalls :
            Check(c.hostname, c.port, c.fingerprint, c.cfg, c.env)
    \/ \E host \in Labels, fingerprint \in Fingerprints, env \in UpdateEnvs :
            Replace(host, fingerprint, env)
    \/ \E host \in Labels, env \in LookupEnvs : Lookup(host, env)
    \/ Return

Spec == Init /\ [][Next]_vars

(***************************************************************************)
(* Runs on known-hosts files that hold a line longer than the line buffer   *)
(* of the store (a file edited by hand): the same lookup and replace, with  *)
(* nothing failing.                                                         *)
(***************************************************************************)
\* the over-long lines begin with NEO4J_MAX_KNOWN_HOSTS_LINE_LENGTH - 1 - k
\* bytes, k in 0..MaxShift, before the text that reads like an entry
MaxShift == 1

\* a line of filler bytes and then, within the same line, the text of an
\* entry; and a line that begins as an entry of one host and holds the text
\* of an entry of the other further on
LongFiles ==
    {FileOf(Rep("x", NEO4J_MAX_KNOWN_HOSTS_LINE_LENGTH - 1 - k)
                \o EntryLine(HostLabel(db, 7), AA)) : k \in 0..MaxShift}
    \cup
    {FileOf(HostLabel(db, 76) \o <<" ">>
                \o Rep("C", NEO4J_MAX_KNOWN_HOSTS_LINE_LENGTH - 1 - k
                                - Len(HostLabel(db, 76)) - 1)
                \o EntryLine(HostLabel(db, 7), AA)) : k \in 0..MaxShift}

LongInit ==
    /\ file \in LongFiles
    /\ start = TRUE
    /\ last = Idle
    /\ pinned = NoPin
    /\ ncalls = 0
    /\ StepsAtRest
    /\ StreamAtRest

LongNext ==
    \/ \E host \in Labels, fingerprint \in {AA, CC} :
            Replace(host, fingerprint, NoUpdateFault)
    \/ \E host \in Labels : Lookup(host, NoLookupFault)
    \/ Return

LongSpec == LongInit /\ [][LongNext]_vars

(***************************************************************************)
(* Step-wise runs.  Two processes work on the same known-hosts file, each   *)
(* running update_stored_fingerprint or retrieve_stored_fingerprint one     *)
(* library call at a time.  The file system maps the file's name            *)
(* (fsys.target) and each process's temp name (fsys.temp[p]) to a file      *)
(* (an index into fsys.data, 0: no such file); a stream, once opened, reads *)
(* and writes its file whatever becomes of the names.  stdio's buffering    *)
(* aside: the bytes written reach the temp file no later than fclose.       *)
(* fsys.longName: strlen(file) leaves no room for the temp suffix.          *)
(* fsys.stray: some file other than these was unlinked.                     *)
(***************************************************************************)
\* operations started in one step-wise run
MaxOps == 2

\* what the second fclose of a stream does: it returns, or the allocator
\* detects the stream freed twice and aborts the process.  (What it may do
\* to a descriptor of another thread shows there as a failing read, which
\* the environment produces anyway.)
DoubleCloseOutcomes == {"returns", "abort"}

StepFiles ==
    {NoFile,
     FileOf(EntryLine(HostLabel(db, 7), AA)),
     FileOf(EntryLine(HostLabel(db, 76), CC) \o EntryLine(HostLabel(db, 7), AA)),
     FileOf(HostLabel(db, 76) \o <<" ">> \o CC)}

\* each process presents its own fingerprint
FingerprintOf(p) == IF p = 1 THEN AA ELSE CC

FsysOf(f, longName) ==
    [NoFsys EXCEPT !.target = IF f.exists THEN 1 ELSE 0,
                   !.data = IF f.exists THEN <<f.bytes>> ELSE <<>>,
                   !.longName = longName]

\* the file a name or a stream refers to
FileAt(fs, i) == IF i = 0 THEN NoFile ELSE FileOf(fs.data[i])

Running(pr) == pr.pc \notin {"idle", "done", "aborted"}

\* the name file now refers to t, by a step of p: the history of the
\* processes that are in a call
Observing(ps, p, t) ==
    [q \in Procs |->
        IF Running(ps[q]) /\ q # p
        THEN [ps[q] EXCEPT !.seen = @ \cup {t}, !.disturbed = TRUE]
        ELSE ps[q]]

\* a faulty StreamInode: each read opens the file by its name again
StreamInode_ByName(fs, pr) == fs.target

\* the file a process's input stream reads: the one fopen opened
StreamInode(fs, pr) == pr.in

\* fgets(line, sizeof(line), stream): the next line, or none at end of file
NextLine(fs, pr) ==
    \* << >> when fgets returns NULL
    LET i == StreamInode(fs, pr)
        ch == IF i = 0 THEN <<>> ELSE Chunks(fs.data[i])
    IN  IF pr.pos < Len(ch) THEN <<ch[pr.pos + 1]>> ELSE <<>>

\* goto failure, after the library call named step failed
Fail(pr, step) == [pr EXCEPT !.pc = "failure", !.failed = step]

\* a process enters update_stored_fingerprint: fopen(file, "r")
StartReplace(p, host, fails) ==
    /\ procs[p].pc = "idle"
    /\ started < MaxOps
    /\ started' = started + 1
    /\ procs' = [procs EXCEPT ![p] =
            IF fails
            THEN [IdleProc EXCEPT !.op = "replace", !.host = host,
                    !.fingerprint = FingerprintOf(p), !.pre = fsys.target,
                    !.seen = {fsys.target}, !.pc = "done", !.result = -1,
                    !.failed = "fopen"]
            ELSE [IdleProc EXCEPT !.op = "replace", !.host = host,
                    !.fingerprint = FingerprintOf(p), !.pre = fsys.target,
                    !.seen = {fsys.target}, !.pc = "mkdir",
                    !.in = fsys.target, !.in_stream = (fsys.target # 0),
                    !.opened.in = IF fsys.target # 0 THEN 1 ELSE 0]]
    /\ UNCHANGED <<fsys, renamed, callvars, streamvars>>

\* the length check, neo4j_dirname and neo4j_mkdir_p
UpdMkdir(p, fails) ==
    /\ procs[p].pc = "mkdir"
    /\ procs' = [procs EXCEPT ![p] =
            IF fsys.longName THEN Fail(@, "toolong")
            ELSE IF fails THEN Fail([@ EXCEPT !.outfile = "dir"], "mkdir_p")
            ELSE [@ EXCEPT !.outfile = "dir", !.pc = "mkstemp"]]
    /\ UNCHANGED <<fsys, started, renamed, callvars, streamvars>>

\* mkstemp(outfile): a new, empty file under a name no other file has
UpdMkstemp(p, fails) ==
    /\ procs[p].pc = "mkstemp"
    /\ IF fails
       THEN /\ procs' = [procs EXCEPT ![p] =
                    Fail([@ EXCEPT !.outfile = "empty"], "mkstemp")]
            /\ UNCHANGED fsys
       ELSE /\ fsys' = [fsys EXCEPT !.data = Append(@, <<>>),
                                    !.temp[p] = Len(fsys.data) + 1]
            /\ procs' = [procs EXCEPT ![p] =
                    [@ EXCEPT !.outfile = "temp", !.out = Len(fsys.data) + 1,
                              !.out_fd = TRUE, !.opened.fd = 1, !.pc = "fdopen"]]
    /\ UNCHANGED <<started, renamed, callvars, streamvars>>

\* fdopen(out_fd, "w"); out_fd = -1
UpdFdopen(p, fails) ==
    /\ procs[p].pc = "fdopen"
    /\ procs' = [procs EXCEPT ![p] =
            IF fails THEN Fail(@, "fdopen")
            ELSE [@ EXCEPT !.out_stream = TRUE, !.opened.out = 1,
                           !.out_fd = FALSE, !.pc = "copy"]]
    /\ UNCHANGED <<fsys, started, renamed, callvars, streamvars>>

\* one turn of the copy loop: fgets, the comparison with host, fputs;
\* fail names the call that fails in this turn, if any
UpdCopy(p, fail) ==
    /\ procs[p].pc = "copy"
    /\ LET pr == procs[p]
           line == NextLine(fsys, pr)
       IN  IF ~pr.in_stream
           THEN /\ procs' = [procs EXCEPT ![p].pc = "fprintf"]
                /\ UNCHANGED fsys
           ELSE IF fail = "fgets"
           THEN /\ procs' = [procs EXCEPT ![p] = Fail(@, "fgets")]
                /\ UNCHANGED fsys
           ELSE IF line = <<>>
           THEN /\ procs' = [procs EXCEPT ![p].pc = "fclose_in"]
                /\ UNCHANGED fsys
           ELSE IF MatchesHost(line[1], pr.host)
           THEN /\ procs' = [procs EXCEPT ![p].pos = @ + 1]
                /\ UNCHANGED fsys
           ELSE IF fail = "fputs"
           THEN /\ procs' = [procs EXCEPT ![p] = Fail(@, "fputs")]
                /\ UNCHANGED fsys
           ELSE /\ procs' = [procs EXCEPT ![p].pos = @ + 1]
                /\ fsys' = [fsys EXCEPT !.data[pr.out] = @ \o line[1]]
    /\ UNCHANGED <<started, renamed, callvars, streamvars>>

\* fclose(in_stream); in_stream = NULL.  A failing fclose closes too.
UpdCloseIn(p, fails) ==
    /\ procs[p].pc = "fclose_in"
    /\ procs' = [procs EXCEPT ![p] =
            IF fails THEN Fail([@ EXCEPT !.closes.in = @ + 1], "fclose_in")
            ELSE [@ EXCEPT !.closes.in = @ + 1, !.in_stream = FALSE,
                           !.pc = "fprintf"]]
    /\ UNCHANGED <<fsys, started, renamed, callvars, streamvars>>

\* fprintf(out_stream, "%s %s\n", host, fingerprint)
UpdAppend(p, fails) ==
    /\ procs[p].pc = "fprintf"
    /\ IF fails
       THEN /\ procs' = [procs EXCEPT ![p] = Fail(@, "fprintf")]
            /\ UNCHANGED fsys
       ELSE /\ procs' = [procs EXCEPT ![p].pc = "fclose_out"]
            /\ fsys' = [fsys EXCEPT !.data[procs[p].out] =
                            @ \o EntryLine(procs[p].host, procs[p].fingerprint)]
    /\ UNCHANGED <<started, renamed, callvars, streamvars>>

\* fclose(out_stream); out_stream = NULL.  The stream owns the descriptor.
UpdCloseOut(p, fails) ==
    /\ procs[p].pc = "fclose_out"
    /\ procs' = [procs EXCEPT ![p] =
            IF fails
            THEN Fail([@ EXCEPT !.closes.out = @ + 1, !.closes.fd = @ + 1],
                      "fclose_out")
            ELSE [@ EXCEPT !.closes.out = @ + 1, !.closes.fd = @ + 1,
                           !.out_stream = FALSE, !.pc = "rename"]]
    /\ UNCHANGED <<fsys, started, renamed, callvars, streamvars>>

\* rename(outfile, file); return 0
UpdRename(p, fails) ==
    /\ procs[p].pc = "rename"
    /\ IF fails
       THEN /\ procs' = [procs EXCEPT ![p] = Fail(@, "rename")]
            /\ UNCHANGED <<fsys, renamed>>
       ELSE /\ fsys' = [fsys EXCEPT !.target = procs[p].out, !.temp[p] = 0]
            /\ procs' = Observing([procs EXCEPT ![p].pc = "done", ![p].result = 0],
                                  p, procs[p].out)
            /\ renamed' = [by |-> p, snap |-> procs[p].in, host |-> procs[p].host,
                           fingerprint |-> procs[p].fingerprint]
    /\ UNCHANGED <<started, callvars, streamvars>>

\* the failure label: fclose(in_stream), fclose(out_stream), close(out_fd),
\* unlink(outfile) unless outfile[0] is NUL; return -1.  garbage: what the
\* uninitialized outfile[] holds; dbl: what closing a stream twice does.
UpdFailure(p, garbage, dbl) ==
    /\ procs[p].pc = "failure"
    /\ LET pr == procs[p]
           inTwice == pr.in_stream /\ pr.closes.in > 0
           outTwice == pr.out_stream /\ pr.closes.out > 0
           closed == [pr EXCEPT
                        !.closes.in = IF pr.in_stream THEN @ + 1 ELSE @,
                        !.closes.out = IF pr.out_stream /\ ~(inTwice /\ dbl = "abort")
                                       THEN @ + 1 ELSE @,
                        !.closes.fd = IF (pr.out_stream \/ pr.out_fd)
                                            /\ ~(inTwice /\ dbl = "abort")
                                       THEN @ + 1 ELSE @]
           unlinks == IF pr.outfile = "uninit" THEN garbage
                      ELSE IF pr.outfile = "temp" THEN "temp"
                      ELSE "nopath"
       IN  IF (inTwice \/ outTwice) /\ dbl = "abort"
           THEN /\ procs' = [procs EXCEPT ![p] = [closed EXCEPT !.pc = "aborted"]]
                /\ UNCHANGED fsys
           ELSE /\ fsys' = [fsys EXCEPT
                              !.target = IF unlinks = "file" THEN 0 ELSE @,
                              !.temp[p] = IF unlinks = "temp" THEN 0 ELSE @,
                              !.stray = @ \/ unlinks = "other"]
                /\ procs' =
                     LET ps == [procs EXCEPT ![p] =
                                    [closed EXCEPT !.pc = "done", !.result = -1]]
                     IN  IF unlinks = "file" /\ fsys.target # 0
                         THEN Observing(ps, p, 0) ELSE ps
    /\ UNCHANGED <<started, renamed, callvars, streamvars>>

\* a process enters retrieve_stored_fingerprint: fopen(file, "r")
StartLookup(p, host, fails) ==
    /\ procs[p].pc = "idle"
    /\ started < MaxOps
    /\ started' = started + 1
    /\ procs' = [procs EXCEPT ![p] =
            LET pr == [IdleProc EXCEPT !.op = "lookup", !.host = host,
                         !.pre = fsys.target, !.seen = {fsys.target}]
            IN  IF fails
                THEN [pr EXCEPT !.pc = "done", !.result = -1, !.failed = "fopen"]
                ELSE IF fsys.target = 0
                THEN [pr EXCEPT !.pc = "done", !.result = 1]
                ELSE [pr EXCEPT !.pc = "fgets", !.in = fsys.target,
                                !.in_stream = TRUE, !.opened.in = 1]]
    /\ UNCHANGED <<fsys, renamed, callvars, streamvars>>

\* one turn of the lookup's loop: fgets and the comparison with host
LkRead(p, fails) ==
    /\ procs[p].pc = "fgets"
    /\ procs' = [procs EXCEPT ![p] =
            LET pr == procs[p]
                line == NextLine(fsys, pr)
            IN  IF fails
                THEN [pr EXCEPT !.pc = "cleanup", !.result = -1, !.failed = "fgets"]
                ELSE IF line = <<>>
                THEN [pr EXCEPT !.pc = "cleanup", !.result = 1]
                ELSE IF MatchesHost(line[1], pr.host)
                THEN [pr EXCEPT !.pc = "cleanup", !.result = 0,
                        !.buf = BufOf(StoredFingerprint(line[1], pr.host,
                                         NEO4J_MAX_FINGERPRINT_LENGTH))]
                ELSE [pr EXCEPT !.pos = @ + 1]]
    /\ UNCHANGED <<fsys, started, renamed, callvars, streamvars>>

\* cleanup: fclose(stream); return result
LkClose(p) ==
    /\ procs[p].pc = "cleanup"
    /\ procs' = [procs EXCEPT ![p] =
            [@ EXCEPT !.closes.in = @ + 1, !.in_stream = FALSE, !.pc = "done"]]
    /\ UNCHANGED <<fsys, started, renamed, callvars, streamvars>>

\* the caller takes the result; the process may start another operation
Finish(p) ==
    /\ procs[p].pc = "done"
    /\ started < MaxOps
    /\ procs' = [procs EXCEPT ![p] = IdleProc]
    /\ UNCHANGED <<fsys, started, renamed, callvars, streamvars>>

StepInit ==
    /\ file = NoFile
    /\ start = FALSE
    /\ last = Idle
    /\ pinned = NoPin
    /\ ncalls = 0
    /\ \E f \in StepFiles, longName \in BOOLEAN : fsys = FsysOf(f, longName)
    /\ procs = [p \in Procs |-> IdleProc]
    /\ started = 0
    /\ renamed = NoRename
    /\ StreamAtRest

StepNext ==
    \E p \in Procs :
        \/ \E host \in Labels, fails \in BOOLEAN : StartReplace(p, host, fails)
        \/ \E fails \in BOOLEAN : UpdMkdir(p, fails)
        \/ \E fails \in BOOLEAN : UpdMkstemp(p, fails)
        \/ \E fails \in BOOLEAN : UpdFdopen(p, fails)
        \/ \E fail \in {"none", "fgets", "fputs"} : UpdCopy(p, fail)
        \/ \E fails \in BOOLEAN : UpdCloseIn(p, fails)
        \/ \E fails \in BOOLEAN : UpdAppend(p, fails)
        \/ \E fails \in BOOLEAN : UpdCloseOut(p, fails)
        \/ \E fails \in BOOLEAN : UpdRename(p, fails)
        \/ \E garbage \in Garbage, dbl \in DoubleCloseOutcomes :
                UpdFailure(p, garbage, dbl)
        \/ \E host \in Labels, fails \in BOOLEAN : StartLookup(p, host, fails)
        \/ \E fails \in BOOLEAN : LkRead(p, fails)
        \/ LkClose(p)
        \/ Finish(p)

StepSpec == StepInit /\ [][StepNext]_vars

(***************************************************************************)
(* The result stream (struct neo4j_result_stream, struct neo4j_result).     *)
(* The header declares the operations; what they do is taken from the       *)
(* specification: a decoder buffers the records the server emits and may    *)
(* signal the end of the stream or a failure; the consumer fetches,         *)
(* retains and releases records, queries the failure, and closes.  A        *)
(* record is its emission number; records[i].valid: its values are          *)
(* accessible; refs: its retain count; retains, releases: the calls made on *)
(* it so far (history).  stream.delivered, atFailure, reported and errors   *)
(* are history: the records fetch_next returned, the records buffered when  *)
(* the failure was signalled, the failure fetch_next first returned, and    *)
(* how often it returned one.                                               *)
(***************************************************************************)
\* the server emits at most this many records
MaxRecords == 2
\* a record is retained at most this many times
MaxRetain == 2

Failures ==
    {[kind |-> "STATEMENT_EVALUATION_FAILED",
      code |-> "Neo.ClientError.Statement.SyntaxError", message |-> "Invalid input"],
     [kind |-> "CONNECTION_CLOSED", code |-> "none", message |-> "none"]}

NewRecord == [valid |-> TRUE, refs |-> 0, retains |-> 0, releases |-> 0]

\* a faulty Reclaimable: the record the stream is positioned on is reclaimed
\* as soon as its count is zero
Reclaimable_IgnoresPosition(rec, isCurrent) == rec.refs = 0

\* the arena of a record is reclaimed when its retain count is zero and the
\* stream has advanced past it
Reclaimable(rec, isCurrent) == rec.refs = 0 /\ ~isCurrent

\* a faulty SurvivesClose: close spares the retained records
SurvivesClose_Retained(rec) == rec.valid /\ rec.refs > 0

\* close invalidates every record, whatever its retain count
SurvivesClose(rec) == FALSE

\* a faulty FetchFails: the failure is returned as soon as it is signalled
FetchFails_AtOnce(st) == st.ended = "failure"

\* fetch_next returns the error once the buffered records are drained
FetchFails(st) == st.ended = "failure" /\ st.buffer = <<>>

\* the stream advances past the record it is positioned on
Advanced(recs, st) ==
    IF st.current # 0 /\ Reclaimable(recs[st.current], FALSE)
    THEN [recs EXCEPT ![st.current].valid = FALSE]
    ELSE recs

\* the decoder has the response header
DecodeHeader ==
    /\ stream.state = "HEADER_PENDING" /\ stream.ended = "no"
    /\ stream' = [stream EXCEPT !.state = "STREAMING"]
    /\ UNCHANGED <<records, ret, callvars, stepvars>>

\* the decoder buffers the next record the server emitted
DecodeRecord ==
    /\ stream.state = "STREAMING" /\ stream.ended = "no"
    /\ stream.emitted < MaxRecords
    /\ stream' = [stream EXCEPT !.emitted = @ + 1,
                                !.buffer = Append(@, stream.emitted + 1)]
    /\ records' = Append(records, NewRecord)
    /\ UNCHANGED <<ret, callvars, stepvars>>

\* the decoder has seen the end of the response
DecodeEnd ==
    /\ stream.state = "STREAMING" /\ stream.ended = "no"
    /\ stream' = [stream EXCEPT !.ended = "end"]
    /\ UNCHANGED <<records, ret, callvars, stepvars>>

\* the decoder signals a failure; the stream is FAILED once no record is
\* buffered
DecodeFailure(f) ==
    /\ stream.state \in {"HEADER_PENDING", "STREAMING"} /\ stream.ended = "no"
    /\ stream' = [stream EXCEPT !.ended = "failure", !.failure = f,
                                !.atFailure = Len(stream.buffer),
                                !.state = IF stream.buffer = <<>> THEN "FAILED" ELSE @]
    /\ UNCHANGED <<records, ret, callvars, stepvars>>

\* fetch_next: blocks while nothing is buffered and the decoder goes on
FetchNext ==
    /\ stream.state # "CLOSED"
    /\ stream.buffer # <<>> \/ stream.ended # "no"
    /\ records' = Advanced(records, stream)
    /\ IF FetchFails(stream)
       THEN /\ stream' = [stream EXCEPT !.current = 0, !.state = "FAILED",
                            !.reported = IF @.kind = "none" THEN stream.failure ELSE @,
                            !.errors = Min(@ + 1, 2)]
            /\ ret' = [op |-> "fetch_next", result |-> stream.failure.kind, record |-> 0]
       ELSE IF stream.buffer # <<>>
       THEN /\ stream' = [stream EXCEPT
                            !.current = Head(stream.buffer),
                            !.buffer = Tail(stream.buffer),
                            !.delivered = Append(@, Head(stream.buffer)),
                            !.state = IF stream.ended = "failure"
                                         /\ Tail(stream.buffer) = <<>>
                                      THEN "FAILED" ELSE @]
            /\ ret' = [op |-> "fetch_next", result |-> "record",
                       record |-> Head(stream.buffer)]
       ELSE /\ stream' = [stream EXCEPT !.current = 0, !.state = "END"]
            /\ ret' = [op |-> "fetch_next", result |-> "none", record |-> 0]
    /\ UNCHANGED <<callvars, stepvars>>

\* check_failure: 0 if healthy, else the error kind
CheckFailure ==
    /\ stream.state # "CLOSED"
    /\ ret' = [op |-> "check_failure",
               result |-> IF stream.state = "FAILED" THEN stream.failure.kind ELSE "none",
               record |-> 0]
    /\ UNCHANGED <<stream, records, callvars, stepvars>>

\* error_code: the server's code, when the failure is an evaluation failure
ErrorCode ==
    /\ stream.state # "CLOSED"
    /\ ret' = [op |-> "error_code",
               result |-> IF stream.state = "FAILED" THEN stream.failure.code ELSE "none",
               record |-> 0]
    /\ UNCHANGED <<stream, records, callvars, stepvars>>

\* error_message: the server's message, under the same condition
ErrorMessage ==
    /\ stream.state # "CLOSED"
    /\ ret' = [op |-> "error_message",
               result |-> IF stream.state = "FAILED" THEN stream.failure.message
                          ELSE "none",
               record |-> 0]
    /\ UNCHANGED <<stream, records, callvars, stepvars>>

\* retain(R): the count goes up by one
Retain(r) ==
    /\ stream.state # "CLOSED"
    /\ r \in 1..Len(stream.delivered)
    /\ records[r].valid
    /\ records[r].retains < MaxRetain
    /\ records' = [records EXCEPT ![r].refs = @ + 1, ![r].retains = @ + 1]
    /\ UNCHANGED <<stream, ret, callvars, stepvars>>

\* release(R): the count goes down by one; at zero, and once the stream has
\* advanced past R, the record is reclaimed
Release(r) ==
    /\ stream.state # "CLOSED"
    /\ r \in 1..Len(stream.delivered)
    /\ records[r].valid
    /\ records[r].refs > 0
    /\ records' = [records EXCEPT ![r] =
            LET rec == [@ EXCEPT !.refs = @ - 1, !.releases = @ + 1]
            IN  IF Reclaimable(rec, stream.current = r)
                THEN [rec EXCEPT !.valid = FALSE] ELSE rec]
    /\ UNCHANGED <<stream, ret, callvars, stepvars>>

\* close, from any state: returns 0 or an error; invalidates either way
Close(result) ==
    /\ stream.state # "CLOSED"
    /\ stream' = [stream EXCEPT !.state = "CLOSED", !.current = 0, !.buffer = <<>>]
    /\ records' = [r \in 1..Len(records) |->
                        [records[r] EXCEPT !.valid = SurvivesClose(records[r])]]
    /\ ret' = [op |-> "close", result |-> result, record |-> 0]
    /\ UNCHANGED <<callvars, stepvars>>

StreamInit ==
    /\ file = NoFile
    /\ start = FALSE
    /\ last = Idle
    /\ pinned = NoPin
    /\ ncalls = 0
    /\ StepsAtRest
    /\ StreamAtRest

StreamNext ==
    \/ DecodeHeader
    \/ DecodeRecord
    \/ DecodeEnd
    \/ \E f \in Failures : DecodeFailure(f)
    \/ FetchNext
    \/ CheckFailure
    \/ ErrorCode
    \/ ErrorMessage
    \/ \E r \in 1..MaxRecords : Retain(r)
    \/ \E r \in 1..MaxRecords : Release(r)
    \/ \E result \in {"none", "error"} : Close(result)

StreamSpec == StreamInit /\ [][StreamNext]_vars

(***************************************************************************)
(* The known-hosts file as the file format defines it: text lines, each an  *)
(* entry "<hostname>:<port> <fingerprint>\n".                               *)
(***************************************************************************)
RECURSIVE TextLines(_)
\* the lines of a text, each with its newline; an unterminated rest is the
\* last line
TextLines(bytes) ==
    IF bytes = <<>> THEN <<>>
    ELSE LET k == NewlineAt(bytes, 1, Len(bytes))
         IN  <<SubSeq(bytes, 1, k)>> \o TextLines(SubSeq(bytes, k + 1, Len(bytes)))

\* line is keyed by host: it begins with host followed by whitespace
KeyedBy(line, host) ==
    /\ Len(line) > Len(host)
    /\ \A i \in 1..Len(host) : line[i] = host[i]
    /\ line[Len(host) + 1] \in {" ", "\t", "\n", "\r", "\f"}

\* the fingerprint field of a line keyed by host: what follows the label,
\* without the surrounding whitespace
FieldOf(line, host) ==
    LET p == SkipSpaces(SubSeq(line, Len(host) + 2, Len(line)))
    IN  SubSeq(p, 1, TrimLen(p, Len(p)))

\* the lines of f keyed by host
EntriesFor(f, host) ==
    IF f.exists
    THEN SelectSeq(TextLines(f.bytes), LAMBDA line : KeyedBy(line, host))
    ELSE <<>>

\* f holds exactly one entry for host, and it stores fingerprint
HoldsOnly(f, host, fingerprint) ==
    EntriesFor(f, host) = <<EntryLine(host, fingerprint)>>

\* the last call was a neo4j_check_known_hosts that got as far as the lookup
Checked == last.op = "check" /\ last.out.lookup.result # 2

\* ... and the lookup did not fail
LookedUp == Checked /\ last.out.lookup.result \in {0, 1}

\* the callback was invoked in the last call
Asked == last.out.calls # <<>>

\* the assertion on the length of the host label never fires
HostLabelFits ==
    (last.op = "check" /\ ValidHostname(last.hostname))
        => HostFits(last.hostname, last.port)

(***************************************************************************)
(* C1.  If the known-hosts file holds an entry for "<hostname>:<port>"      *)
(* whose stored fingerprint equals the presented one (here: it is the       *)
(* file's only entry for that label, and the lookup could read the file),   *)
(* neo4j_check_known_hosts returns 0, does not invoke the callback and      *)
(* leaves the file unchanged.                                               *)
(***************************************************************************)
C1_StoredFingerprintVerifies ==
    (LookedUp /\ HoldsOnly(last.pre, last.host, last.fingerprint))
        => (last.out.result = 0 /\ ~Asked /\ file = last.pre)

(***************************************************************************)
(* C2.  TOFU pinning: once a call for (hostname, port, fingerprint) has     *)
(* returned 0 because the callback answered TRUST, and while the file still *)
(* holds that entry as its only one for the label, a later call with the    *)
(* same fingerprint returns 0 without invoking the callback, and a later    *)
(* call with a different fingerprint invokes the installed callback with    *)
(* reason MISMATCH - whatever the length of the fingerprints.               *)
(***************************************************************************)
C2_TrustPinsFingerprint ==
    (LookedUp /\ last.pin.init /\ last.pin.host = last.host
        /\ HoldsOnly(last.pre, last.host, last.pin.str))
        => IF last.fingerprint = last.pin.str
           THEN last.out.result = 0 /\ ~Asked
           ELSE last.cfg.callback # "none"
                    => last.out.calls =
                         <<[host |-> last.host, fingerprint |-> last.fingerprint,
                            reason |-> "MISMATCH"]>>

(***************************************************************************)
(* C3.  When neo4j_check_known_hosts invokes the callback, it does so once, *)
(* with the host label "<hostname>:<port>" and the presented fingerprint,   *)
(* and the reason is UNRECOGNIZED exactly when the store has no entry for   *)
(* the label and MISMATCH exactly when the store has an entry for the label *)
(* whose fingerprint differs from the presented one.                        *)
(***************************************************************************)
C3_CallbackReason ==
    (Checked /\ Asked)
        => LET call == last.out.calls[1]
               entries == EntriesFor(last.pre, last.host)
           IN  /\ Len(last.out.calls) = 1
               /\ call.host = HostLabel(last.hostname, last.port)
               /\ call.fingerprint = last.fingerprint
               /\ call.reason \in {"UNRECOGNIZED", "MISMATCH"}
               /\ (call.reason = "UNRECOGNIZED") <=> (entries = <<>>)
               /\ (call.reason = "MISMATCH")
                    <=> (\E i \in 1..Len(entries) :
                            FieldOf(entries[i], last.host) # last.fingerprint)

(***************************************************************************)
(* C4.  When the lookup does not verify the presented fingerprint (it       *)
(* reports no entry, or an entry with another fingerprint), the result is   *)
(* decided by the callback: 0 if it returns TRUST and persisting succeeds,  *)
(* 0 if it returns ACCEPT_ONCE, 1 for every other return value, and 1 if no *)
(* callback is installed.  The result is always one of -1, 0, 1.            *)
(***************************************************************************)
NotVerified ==
    /\ LookedUp
    /\ ~(last.out.lookup.result = 0 /\ last.out.lookup.buf.str = last.fingerprint)

C4_ResultFromCallback ==
    last.op = "check"
        => /\ last.out.result \in {-1, 0, 1}
           /\ NotVerified
                => /\ last.cfg.callback = "none" => last.out.result = 1
                   /\ (last.cfg.callback = "TRUST" /\ last.out.update.result = 0)
                        => last.out.result = 0
                   /\ last.cfg.callback = "ACCEPT_ONCE" => last.out.result = 0
                   /\ last.cfg.callback \in {"REJECT", "OTHER"} => last.out.result = 1

\* a mismatch the callback accepted once; one it rejected; one nobody was
\* asked about
C4_Witness ==
    /\ NotVerified /\ last.out.lookup.result = 0
    /\ last.cfg.callback = "ACCEPT_ONCE" /\ Asked /\ last.out.result = 0

(***************************************************************************)
(* C5.  neo4j_check_known_hosts changes the known-hosts file only when the  *)
(* callback returns TRUST: with no callback installed, with a callback that *)
(* returns ACCEPT_ONCE or any other value, or when the stored fingerprint   *)
(* already matches (the callback is not asked), the file after the call is  *)
(* the file before it, and an absent file stays absent.                     *)
(***************************************************************************)
C5_OnlyTrustWrites ==
    (last.op = "check" /\ ~(Asked /\ last.cfg.callback = "TRUST"))
        => file = last.pre

\* the callback accepted a mismatching fingerprint once and the entry stayed
C5_Witness ==
    /\ Checked /\ Asked /\ last.cfg.callback = "ACCEPT_ONCE"
    /\ last.out.result = 0 /\ last.pre.exists /\ file = last.pre
    /\ EntriesFor(file, last.host) # <<>>

\* the last call ran update_stored_fingerprint, from the verifier or directly
Replaced == last.op \in {"check", "replace"} /\ last.out.update.result # 2

(***************************************************************************)
(* C6.  When the callback returns TRUST and neo4j_check_known_hosts returns *)
(* 0, the file afterwards contains the line "<host> <fingerprint>\n" and no *)
(* other line keyed by the host label; starting from an absent file, or     *)
(* from a file whose only entry is for that label, the file afterwards      *)
(* consists of exactly that line.                                           *)
(***************************************************************************)
C6_TrustWritesEntry ==
    (Checked /\ Asked /\ last.cfg.callback = "TRUST" /\ last.out.result = 0)
        => /\ EntriesFor(file, last.host) = <<EntryLine(last.host, last.fingerprint)>>
           /\ (\/ ~last.pre.exists
               \/ /\ Len(TextLines(last.pre.bytes)) = 1
                  /\ Len(EntriesFor(last.pre, last.host)) = 1)
                => file = FileOf(EntryLine(last.host, last.fingerprint))

(***************************************************************************)
(* C7.  If the lookup fails (the file exists but cannot be opened or read), *)
(* neo4j_check_known_hosts returns -1 and the callback is not asked.        *)
(***************************************************************************)
C7_LookupFailurePropagates ==
    (Checked /\ last.out.lookup.result = -1)
        => (last.out.result = -1 /\ ~Asked)

(***************************************************************************)
(* C8.  If the callback returns TRUST but persisting the fingerprint fails  *)
(* at any step of replace, neo4j_check_known_hosts returns -1 and the       *)
(* known-hosts file is left exactly as it was before the call.              *)
(***************************************************************************)
C8_PersistFailureIsError ==
    (Checked /\ Asked /\ last.cfg.callback = "TRUST" /\ last.out.update.result = -1)
        => (last.out.result = -1 /\ file = last.pre)

(***************************************************************************)
(* C9.  Round trip: after a successful replace(file, host, fp), whatever    *)
(* the file held before, lookup(file, host) reports the entry present and   *)
(* returns exactly fp.                                                      *)
(***************************************************************************)
C9_ReplaceThenLookup ==
    (Replaced /\ last.out.update.result = 0)
        => retrieve_stored_fingerprint(file, last.host,
               NEO4J_MAX_FINGERPRINT_LENGTH, FALSE, -1)
             = [result |-> 0, buf |-> BufOf(last.fingerprint)]

(***************************************************************************)
(* C10.  Uniqueness: after a successful replace(file, host, fp) the file    *)
(* holds exactly one entry keyed by host, whatever number it held before;   *)
(* and starting from an absent file, after any sequence of successful and   *)
(* failed replaces the file holds at most one entry per host label.         *)
(***************************************************************************)
C10_OneEntryPerHost ==
    /\ (Replaced /\ last.out.update.result = 0)
            => Len(EntriesFor(file, last.host)) = 1
    /\ ~start => \A h \in Labels : Len(EntriesFor(file, h)) <= 1

\* the second half of C10 alone
C10_FromAbsentAtMostOne ==
    ~start => \A h \in Labels : Len(EntriesFor(file, h)) <= 1

(***************************************************************************)
(* Step-wise runs: what a finished operation is compared with.              *)
(***************************************************************************)
\* retrieve_stored_fingerprint run alone on the file f, nothing failing
LookupOn(f, host) ==
    retrieve_stored_fingerprint(f, host, NEO4J_MAX_FINGERPRINT_LENGTH, FALSE, -1)

\* what the lookup of process p returned
Returned(p) == [result |-> procs[p].result, buf |-> procs[p].buf]

\* process p has left update_stored_fingerprint after one of its steps failed
FailedReplace(p) ==
    /\ procs[p].op = "replace"
    /\ procs[p].failed # "none"
    /\ procs[p].pc \in {"done", "aborted"}

\* every line of f ends with a newline
WellFormed(f) ==
    \A i \in 1..Len(TextLines(f.bytes)) :
        LET line == TextLines(f.bytes)[i] IN line[Len(line)] = "\n"

(***************************************************************************)
(* C11.  Crash safety.  If update_stored_fingerprint fails at any step      *)
(* (and no other process replaces the file meanwhile), it returns -1, the   *)
(* known-hosts file is what it was before the call, and a lookup of the     *)
(* host returns what it returned before; and as long as a replace is under  *)
(* way the known-hosts file is what it was before the call, never a         *)
(* partially written file.                                                  *)
(***************************************************************************)
C11_CrashSafety ==
    \A p \in Procs :
        /\ (FailedReplace(p) /\ ~procs[p].disturbed)
            => /\ procs[p].pc = "done"
               /\ procs[p].result = -1
               /\ FileAt(fsys, fsys.target) = FileAt(fsys, procs[p].pre)
               /\ LookupOn(FileAt(fsys, fsys.target), procs[p].host)
                    = LookupOn(FileAt(fsys, procs[p].pre), procs[p].host)
        /\ (procs[p].op = "replace" /\ Running(procs[p]) /\ ~procs[p].disturbed)
            => FileAt(fsys, fsys.target) = FileAt(fsys, procs[p].pre)

\* the part of C11 on partial writes alone
C11_NoPartialWrite ==
    \A p \in Procs :
        (procs[p].op = "replace" /\ Running(procs[p]) /\ ~procs[p].disturbed)
            => FileAt(fsys, fsys.target) = FileAt(fsys, procs[p].pre)

(***************************************************************************)
(* C13.  A lookup that runs concurrently with replaces of the same file     *)
(* (and whose own fopen and fgets do not fail) returns the result of a      *)
(* lookup on one of the whole files the name referred to while it ran: the  *)
(* file before a replace or the file after it, never a mixture.             *)
(***************************************************************************)
C13_LookupSeesWholeFile ==
    \A p \in Procs :
        (procs[p].op = "lookup" /\ procs[p].pc = "done" /\ procs[p].failed = "none")
            => \E v \in procs[p].seen :
                    LookupOn(FileAt(fsys, v), procs[p].host) = Returned(p)

\* a lookup that read the old file to its end while a replace renamed a
\* file with another answer over it
C13_Witness ==
    \E p \in Procs :
        /\ procs[p].op = "lookup" /\ procs[p].pc = "done"
        /\ procs[p].failed = "none" /\ procs[p].disturbed
        /\ procs[p].pos > 0
        /\ renamed.by # 0 /\ renamed.by # p
        /\ Returned(p) = LookupOn(FileAt(fsys, procs[p].pre), procs[p].host)
        /\ Returned(p) # LookupOn(FileAt(fsys, fsys.target), procs[p].host)

(***************************************************************************)
(* C14.  Two concurrent replaces are last-writer-wins: when both have       *)
(* succeeded, the file is exactly what the replace that renamed last built  *)
(* (the file it opened, minus its host's lines, plus its entry), so the     *)
(* file is well formed and holds that replace's entry exactly once.         *)
(***************************************************************************)
C14_LastWriterWins ==
    (\A p \in Procs :
        procs[p].op = "replace" /\ procs[p].pc = "done" /\ procs[p].result = 0)
        => /\ renamed.by # 0
           /\ FileAt(fsys, fsys.target)
                = FileOf(Rewritten(FileAt(fsys, renamed.snap), renamed.host,
                                   renamed.fingerprint))
           /\ WellFormed(FileAt(fsys, fsys.target))
           /\ EntriesFor(FileAt(fsys, fsys.target), renamed.host)
                = <<EntryLine(renamed.host, renamed.fingerprint)>>

\* the first part of C14 alone: the last rename decides the content
C14_LastRenameWins ==
    (\A p \in Procs :
        procs[p].op = "replace" /\ procs[p].pc = "done" /\ procs[p].result = 0)
        => /\ renamed.by # 0
           /\ FileAt(fsys, fsys.target)
                = FileOf(Rewritten(FileAt(fsys, renamed.snap), renamed.host,
                                   renamed.fingerprint))

\* both replaces succeeded and the entry of the one that renamed first is lost
C14_EntryLost ==
    /\ \A p \in Procs :
        procs[p].op = "replace" /\ procs[p].pc = "done" /\ procs[p].result = 0
    /\ \E p \in Procs :
        /\ p # renamed.by /\ procs[p].host # renamed.host
        /\ EntriesFor(FileAt(fsys, fsys.target), procs[p].host) = <<>>

(***************************************************************************)
(* C15.  Failure is sticky and ordered after the buffered records:          *)
(* fetch_next returns the records in emission order, none skipped; when the *)
(* decoder signals a failure while records are buffered, fetch_next returns *)
(* the error only after every buffered record; and from then until close    *)
(* every fetch_next returns that error, check_failure returns its kind      *)
(* (not 0), and error_code and error_message return its strings.            *)
(***************************************************************************)
C15_FailureStickyAfterBuffered ==
    /\ stream.delivered = [i \in 1..Len(stream.delivered) |-> i]
    /\ stream.reported.kind # "none"
        => /\ Len(stream.delivered) = stream.emitted
           /\ stream.state # "CLOSED"
                => /\ stream.failure = stream.reported
                   /\ ret.op = "fetch_next"
                        => (ret.result = stream.reported.kind /\ ret.record = 0)
                   /\ ret.op = "check_failure"
                        => (ret.result = stream.reported.kind /\ ret.result # "none")
                   /\ ret.op = "error_code" => ret.result = stream.reported.code
                   /\ ret.op = "error_message" => ret.result = stream.reported.message

\* the server failed the statement with a record still buffered; the record
\* was fetched, then fetch_next returned the error twice, and error_code
\* gives the server's code
C15_Witness ==
    /\ stream.atFailure >= 1
    /\ stream.errors = 2
    /\ stream.reported.kind = "STATEMENT_EVALUATION_FAILED"
    /\ ret.op = "error_code" /\ ret.result = stream.reported.code
    /\ stream.delivered # <<>>

(***************************************************************************)
(* C16.  Record lifetime: while the stream is open, a fetched record is     *)
(* accessible exactly as long as it has been retained more often than       *)
(* released or the stream is still positioned on it: through the k-th       *)
(* release of k retains, no longer after it once the stream has advanced,   *)
(* and, never retained, no longer after the next fetch_next.                *)
(***************************************************************************)
C16_RecordLifetime ==
    stream.state # "CLOSED"
        => \A r \in 1..Len(stream.delivered) :
                records[r].valid
                    <=> (records[r].retains > records[r].releases \/ stream.current = r)

\* a record retained and released as often as the bound allows, across a
\* fetch_next, now reclaimed; and a later record, never retained, current
C16_Witness ==
    /\ stream.state # "CLOSED"
    /\ Len(stream.delivered) >= 2
    /\ records[1].retains = MaxRetain /\ records[1].releases = MaxRetain
    /\ ~records[1].valid
    /\ stream.current = 2 /\ records[2].retains = 0 /\ records[2].valid

C18_ResourceCleanup ==
    \A p \in Procs :
        (procs[p].op = "replace" /\ procs[p].pc \in {"done", "aborted"})
            => /\ procs[p].closes = procs[p].opened
               /\ procs[p].failed # "none"
                    => /\ fsys.temp[p] = 0
                       /\ ~fsys.stray
                       /\ ~procs[p].disturbed => fsys.target = procs[p].pre

\* the part of C18 that holds: nothing stays open when the function returns
C18_NothingLeftOpen ==
    \A p \in Procs :
        (procs[p].op = "replace" /\ procs[p].pc = "done")
            => \A h \in {"in", "fd", "out"} : procs[p].closes[h] >= procs[p].opened[h]

(***************************************************************************)
(* C12.  Non-interference: a successful replace(file, host1, fp1) leaves    *)
(* the entries keyed by any other host label host2 as they were (also when  *)
(* one label is a prefix of the other), so lookup(file, host2) returns the  *)
(* same before and after.                                                   *)
(***************************************************************************)
C12_NonInterference ==
    (Replaced /\ last.out.update.result = 0)
        => \A host2 \in Labels \ {last.host} :
            /\ EntriesFor(file, host2) = EntriesFor(last.pre, host2)
            /\ LookupOn(file, host2) = LookupOn(last.pre, host2)

(***************************************************************************)
(* C19.  Leading whitespace is tolerated on read: when the first line of    *)
(* the file that names the host label, leading whitespace aside, is         *)
(* indented, a lookup of the label (that can read the file) returns that    *)
(* line's fingerprint; and after a successful replace for the label no      *)
(* indented line naming the label is left.                                  *)
(***************************************************************************)
\* the lines of f keyed by host once their leading whitespace is dropped
LooseEntriesFor(f, host) ==
    IF f.exists
    THEN SelectSeq(TextLines(f.bytes), LAMBDA line : KeyedBy(SkipSpaces(line), host))
    ELSE <<>>

\* line begins with whitespace
Indented(line) == line # <<>> /\ isspace(line[1])

Unindented(f) ==
    IF f.exists
    THEN FileOf(Flatten(SelectSeq(TextLines(f.bytes), LAMBDA line : ~Indented(line))))
    ELSE f

Terminated(line) == line # <<>> /\ line[Len(line)] = "\n"

OverLong(line) == Len(line) > NEO4J_MAX_KNOWN_HOSTS_LINE_LENGTH

C20_OverLongLinesOpaque ==
    /\ (Replaced /\ last.out.update.result = 0)
            => \A i \in 1..Len(TextLines(last.pre.bytes)) :
                LET line == TextLines(last.pre.bytes)[i]
                IN  (OverLong(line) /\ ~KeyedBy(line, last.host))
                        => \E j \in 1..Len(TextLines(file.bytes)) :
                                TextLines(file.bytes)[j] = line
    /\ (last.op = "lookup" /\ last.out.result = 0)
            => EntriesFor(last.pre, last.host) # <<>>

====
